---------------------------- MODULE Spec2Model ----------------------------
(***************************************************************************)
(* Iron Condor tracker (src/app.py): the Flask callback receiver, the      *)
(* authentication flow, the Streamlit script runs of the authentication    *)
(* page and of the tracking page, and the pure helpers format_symbol,      *)
(* get_ltp_batch and calculate_iron_condor.                                *)
(*                                                                         *)
(* Representation.                                                         *)
(*  - A Python str that the code slices is a sequence of one-character     *)
(*    strings; opaque strings (tokens, codes, messages) are TLA+ strings.  *)
(*  - Python None is the string None; a dict is a record or a function.    *)
(*  - Prices are integers.  Every field of the metrics record is held as   *)
(*    twice its value (fixed point, Fixed), so that * 1.5 and / 2 are the  *)
(*    integer operations the model shows.                                  *)
(*  - Every script run executes the script's top level again in a new     *)
(*    namespace: lines 18-19 give the run its own flask_app and its own    *)
(*    auth_code_received = None.  The listener thread that holds port 5000 *)
(*    (the first one started in the process) serves the flask_app of the   *)
(*    run that started it, so receive_auth_code writes the global of that  *)
(*    run (receiver_code); a run's waiting loop reads the run's own global *)
(*    (auth_code_received).  The two are one object in that run only       *)
(*    (bound_here).                                                        *)
(*  - st.session_state is per UI session; the listener is per process.     *)
(*    The model holds the whole state of one UI session, the followed one, *)
(*    and of the others what the process shares with it: the threads they  *)
(*    start.  OpenSession opens a further session at any time, followed    *)
(*    from then on or not; OtherSessionLogin is a login click in a session *)
(*    that is not followed.                                                *)
(*  - elapsed counts the completed time.sleep(1) of the waiting loop; the  *)
(*    clock reads strictly more than that many seconds.                    *)
(***************************************************************************)
EXTENDS Integers, Sequences, FiniteSets, TLC

None == "None"

\* ------------------------------------------------------------------ bounds

\* Longest expiry text tried on format_symbol.
MaxExpiryLen == 7
\* Largest leg price tried on calculate_iron_condor.
MaxLtp == 2
\* Largest "Minimum Quantity" input tried.
MaxMinQty == 2
\* UI sessions opened on the process.
MaxSessions == 2

\* ------------------------------------------------------- program constants

\* auto_authenticate: timeout = 120
TIMEOUT == 120
Codes == {"codeA", "codeB"}
Tokens == {"tokA", "tokB"}

MSG_TIMEOUT == "Authentication timeout. Please try again."
MSG_TOKEN_FAILED == "Token generation failed"
MSG_AUTH_FAILED == "Authentication failed"
MSG_AUTH_OK == "Authentication successful!"
MSG_LTP_ERROR == "Could not fetch LTP data. Check symbol formats or market hours."

\* SYMBOLS: lot sizes and prefixes.
NSE_NIFTY == <<"N","S","E",":","N","I","F","T","Y">>
NSE_BANKNIFTY == <<"N","S","E",":","B","A","N","K","N","I","F","T","Y">>
NSE_FINNIFTY == <<"N","S","E",":","F","I","N","N","I","F","T","Y">>
LotSizes == {25, 15}

\* ------------------------------------------------------------------ strings

Min(a, b) == IF a < b THEN a ELSE b
Max(a, b) == IF a > b THEN a ELSE b

\* s[i:j] of Python for 0 <= i <= j (0-based, end excluded, clipped to the length).
Slice(s, i, j) == SubSeq(s, Min(i, Len(s)) + 1, Min(j, Len(s)))
\* s[-n:] of Python for n > 0.
Tail_n(s, n) == SubSeq(s, Max(Len(s) - n, 0) + 1, Len(s))

Lower == <<"a","b","c","d","e","f","g","h","i","j","k","l","m",
           "n","o","p","q","r","s","t","u","v","w","x","y","z">>
Upper == <<"A","B","C","D","E","F","G","H","I","J","K","L","M",
           "N","O","P","Q","R","S","T","U","V","W","X","Y","Z">>

\* str.upper() on one character.
UpperChar(c) ==
  IF \E i \in 1..26 : Lower[i] = c
  THEN Upper[CHOOSE i \in 1..26 : Lower[i] = c]
  ELSE c

\* str.upper()
upper(s) == [i \in 1..Len(s) |-> UpperChar(s[i])]

Digits == <<"0","1","2","3","4","5","6","7","8","9">>

RECURSIVE NatStr(_)
NatStr(n) == IF n < 10 THEN <<Digits[n + 1]>>
             ELSE NatStr(n \div 10) \o <<Digits[(n % 10) + 1]>>

\* str(n) of an int, as the f-string formats {strike}.
IntStr(n) == IF n < 0 THEN <<"-">> \o NatStr(0 - n) ELSE NatStr(n)

\* A call's outcome: the value returned, or the exception raised.
Returned(v) == [raised |-> None, value |-> v]
Raised(e) == [raised |-> e, value |-> <<>>]

\* -------------------------------------------------------------- format_symbol

format_symbol_swapped(base, expiry, strike, option_type) ==
  LET year == Tail_n(expiry, 2)
      month == upper(Slice(expiry, 2, 5))
      day == Slice(expiry, 0, 2)
  IN IF Len(month) = 0 THEN Raised("IndexError")
     ELSE Returned(base \o day \o <<month[1]>> \o year \o IntStr(strike) \o option_type)

format_symbol(base, expiry, strike, option_type) ==
  LET year == Tail_n(expiry, 2)
      month == upper(Slice(expiry, 2, 5))
      day == Slice(expiry, 0, 2)
  IN IF Len(month) = 0 THEN Raised("IndexError")  \* month[0] of ""
     ELSE Returned(base \o year \o <<month[1]>> \o day \o IntStr(strike) \o option_type)

\* ------------------------------------------------------- calculate_iron_condor

\* A price difference in the fixed-point unit of the metrics record.
Fixed(x) == 2 * x

calculate_iron_condor_clamped(call_sell_ltp, call_buy_ltp, put_sell_ltp, put_buy_ltp, lot_size, min_qty) ==
  LET call_premium_diff == Fixed(Max(call_sell_ltp - call_buy_ltp, 0))
      call_max_profit == call_premium_diff * lot_size * min_qty
      put_premium_diff == Fixed(Max(put_sell_ltp - put_buy_ltp, 0))
      put_max_profit == put_premium_diff * lot_size * min_qty
  IN [call_premium_diff |-> call_premium_diff,
      call_max_profit |-> call_max_profit,
      call_sl |-> call_max_profit * 3,
      call_target |-> (call_max_profit * 3) \div 2,
      put_premium_diff |-> put_premium_diff,
      put_max_profit |-> put_max_profit,
      put_sl |-> put_max_profit * 3,
      put_target |-> (put_max_profit * 3) \div 2,
      total_max_profit |-> call_max_profit + put_max_profit,
      avg_premium |-> (call_premium_diff + put_premium_diff) \div 2]

calculate_iron_condor(call_sell_ltp, call_buy_ltp, put_sell_ltp, put_buy_ltp, lot_size, min_qty) ==
  LET call_premium_diff == Fixed(call_sell_ltp - call_buy_ltp)
      call_max_profit == call_premium_diff * lot_size * min_qty
      call_sl == call_max_profit * 3
      call_target == (call_max_profit * 3) \div 2      \* * 1.5
      put_premium_diff == Fixed(put_sell_ltp - put_buy_ltp)
      put_max_profit == put_premium_diff * lot_size * min_qty
      put_sl == put_max_profit * 3
      put_target == (put_max_profit * 3) \div 2        \* * 1.5
      total_max_profit == call_max_profit + put_max_profit
      avg_premium == (call_premium_diff + put_premium_diff) \div 2
  IN [call_premium_diff |-> call_premium_diff,
      call_max_profit |-> call_max_profit,
      call_sl |-> call_sl,
      call_target |-> call_target,
      put_premium_diff |-> put_premium_diff,
      put_max_profit |-> put_max_profit,
      put_sl |-> put_sl,
      put_target |-> put_target,
      total_max_profit |-> total_max_profit,
      avg_premium |-> avg_premium]

\* --------------------------------------------------------------- get_ltp_batch

\* v.get("lp") or v.get("ltp") or 0, then float(ltp) if ltp else 0.0
QuoteLtp(v) ==
  IF "lp" \in DOMAIN v /\ v.lp # 0 THEN v.lp
  ELSE IF "ltp" \in DOMAIN v /\ v.ltp # 0 THEN v.ltp
  ELSE 0

\* The dict the for loop over response["d"] builds: a later quote of the same
\* symbol overwrites an earlier one.
QuotesDict(d) ==
  [n \in {d[i].n : i \in 1..Len(d)} |->
     LET last == CHOOSE i \in 1..Len(d) :
                   d[i].n = n /\ \A j \in 1..Len(d) : d[j].n = n => j <= i
     IN QuoteLtp(d[last].v)]

\* A faulty variant: the status of the response is not looked at.
get_ltp_batch_any_status(response) == QuotesDict(response.d)

get_ltp_batch(response) ==
  IF response.s = "ok" THEN QuotesDict(response.d) ELSE QuotesDict(<<>>)

\* ltp_data.get(symbol, 0)
DictGet(dict, key, default) == IF key \in DOMAIN dict THEN dict[key] ELSE default

\* ------------------------------------------------------------------ the sidebar

CE == <<"C","E">>
PE == <<"P","E">>
DefaultExpiry == <<"1","1","N","O","V","2","5">>

\* SYMBOLS
SYMBOLS ==
  [NIFTY |-> [lot_size |-> 25, prefix |-> NSE_NIFTY],
   BANKNIFTY |-> [lot_size |-> 15, prefix |-> NSE_BANKNIFTY],
   FINNIFTY |-> [lot_size |-> 25, prefix |-> NSE_FINNIFTY]]

\* The sidebar's widgets at their default values.
DefaultSidebar ==
  [selected_symbol |-> "NIFTY", expiry_date |-> DefaultExpiry,
   num_lots |-> 1, min_qty |-> 25, refresh_rate |-> 3,
   call_sell_strike |-> 25700, call_buy_strike |-> 25750,
   put_sell_strike |-> 25100, put_buy_strike |-> 25050]

\* The values the user may give a widget, by widget; the selectbox offers
\* list(SYMBOLS.keys()).  The widgets not named here stay at their defaults.
SidebarChoices ==
  [selected_symbol |-> <<"NIFTY", "BANKNIFTY", "FINNIFTY">>,
   expiry_date |-> <<DefaultExpiry, <<"1","1">>>>,
   num_lots |-> <<1, 2>>,
   min_qty |-> <<25, 1>>,
   refresh_rate |-> <<3, 1>>,
   call_sell_strike |-> <<25700, 25650>>]

\* The widgets and the positions in their lists of values.
Widgets == DOMAIN SidebarChoices
ChoiceIndexes == 1..3

\* main_app: the four format_symbol calls, in the order of the symbols list.
SymbolCalls(sb) ==
  LET base_symbol == SYMBOLS[sb.selected_symbol].prefix
  IN << format_symbol(base_symbol, sb.expiry_date, sb.call_sell_strike, CE),
        format_symbol(base_symbol, sb.expiry_date, sb.call_buy_strike, CE),
        format_symbol(base_symbol, sb.expiry_date, sb.put_sell_strike, PE),
        format_symbol(base_symbol, sb.expiry_date, sb.put_buy_strike, PE) >>

\* One of the calls raises: the script run ends there with the exception.
SymbolsRaise(sb) == \E i \in 1..4 : SymbolCalls(sb)[i].raised # None

\* symbols = [call_sell_symbol, call_buy_symbol, put_sell_symbol, put_buy_symbol]
Symbols(sb) == [i \in 1..4 |-> SymbolCalls(sb)[i].value]

\* What fyers.quotes may answer, each entry naming the position (1..4) of the
\* requested symbol it quotes.
QuoteShapes ==
  { [s |-> "error", d |-> <<>>],
    [s |-> "error", d |-> <<[n |-> 1, v |-> [lp |-> 3]]>>],
    [s |-> "ok", d |-> <<>>],
    [s |-> "ok", d |-> <<[n |-> 1, v |-> [lp |-> 3]],
                         [n |-> 2, v |-> [ltp |-> 1]],
                         [n |-> 3, v |-> [lp |-> 0, ltp |-> 2]],
                         [n |-> 4, v |-> [lp |-> 4]]>>],
    [s |-> "ok", d |-> <<[n |-> 1, v |-> [lp |-> 3]]>>],
    [s |-> "ok", d |-> <<[n |-> 3, v |-> [lp |-> 0]]>>] }

\* The answer of shape to fyers.quotes({"symbols": ",".join(symbols)}).
QuotesFor(shape, symbols) ==
  [s |-> shape.s,
   d |-> [i \in 1..Len(shape.d) |-> [n |-> symbols[shape.d[i].n], v |-> shape.d[i].v]]]
NoResponse == [s |-> "none", d |-> <<>>]

\* What session.generate_token may answer: with or without an access_token.
TokenResponses ==
  { [s |-> "error"] } \cup { [s |-> "ok", access_token |-> t] : t \in Tokens \cup {""} }
NoTokenResponse == [s |-> "none"]

NoMetrics == [computed |-> FALSE]

\* ----------------------------------------------------------------------- state

VARIABLES
  receiver_code,       \* auth_code_received in the namespace receive_auth_code writes
  flask_threads,       \* listener threads started by start_flask_server
  sessions_opened,     \* UI sessions opened so far
  others_unstarted,    \* sessions not followed that have no 'flask_started' key yet
  flask_started,       \* 'flask_started' in st.session_state
  authenticated,       \* st.session_state.authenticated
  access_token,        \* st.session_state.access_token
  tracking_key,        \* 'tracking_active' in st.session_state
  tracking_active,     \* st.session_state.tracking_active (FALSE while absent)
  sidebar,             \* the values of the sidebar widgets
  auth_code_received,  \* the global auth_code_received of the current script run
  bound_here,          \* the current run started the thread that holds port 5000
  pc,                  \* where the session's script run stands
  elapsed,             \* completed time.sleep(1) of the waiting loop
  shown,               \* messages the current script run has put on the page
  quotes_response,     \* what fyers.quotes answered in the current run
  metrics,             \* the metrics the current run rendered
  code_in_window,      \* observation: a callback brought a code during the current run's waiting loop
  exchanges,           \* observation: generate_token calls of the current run
  token_response,      \* observation: what generate_token answered in the current run
  issued,              \* observation: the token of the session's last successful exchange, None after logout
  stop_pending,        \* observation: stop was commanded while tracking and no start since
  fmt_in, fmt_out,     \* a call of format_symbol: arguments and outcome
  calc_in, calc_out    \* a call of calculate_iron_condor: arguments and outcome

global_vars == <<receiver_code, flask_threads, sessions_opened, others_unstarted>>
state_vars == <<flask_started, authenticated, access_token, tracking_key, tracking_active,
                sidebar>>
run_vars == <<auth_code_received, bound_here, pc, elapsed, shown, quotes_response, metrics,
              code_in_window, exchanges, token_response>>
app_vars == <<global_vars, state_vars, run_vars, issued, stop_pending>>
fmt_vars == <<fmt_in, fmt_out>>
calc_vars == <<calc_in, calc_out>>
pure_vars == <<fmt_vars, calc_vars>>
vars == <<app_vars, pure_vars>>

NotCalled == Raised("NotCalled")
NoArgs == <<>>

\* The first script run of the first UI session: the authentication page.
InitApp ==
  /\ receiver_code = None
  /\ flask_threads = 0
  /\ sessions_opened = 1
  /\ others_unstarted = 0
  /\ flask_started = FALSE
  /\ authenticated = FALSE
  /\ access_token = None
  /\ tracking_key = FALSE
  /\ tracking_active = FALSE
  /\ sidebar = DefaultSidebar
  /\ auth_code_received = None
  /\ bound_here = FALSE
  /\ pc = "idle"
  /\ elapsed = 0
  /\ shown = <<>>
  /\ quotes_response = NoResponse
  /\ metrics = NoMetrics
  /\ code_in_window = FALSE
  /\ exchanges = 0
  /\ token_response = NoTokenResponse
  /\ issued = None
  /\ stop_pending = FALSE

InitPure ==
  /\ fmt_in = NoArgs /\ fmt_out = NotCalled
  /\ calc_in = NoArgs /\ calc_out = NoMetrics

Init == InitApp /\ InitPure

\* A script run starts: its namespace is new (auth_code_received = None, line 19),
\* the page is empty and nothing has been observed of the run.
NewRun ==
  /\ auth_code_received' = None
  /\ elapsed' = 0
  /\ quotes_response' = NoResponse
  /\ metrics' = NoMetrics
  /\ code_in_window' = FALSE
  /\ exchanges' = 0
  /\ token_response' = NoTokenResponse

\* ------------------------------------------------------ the callback receiver

\* if token:, if auth_code_received: of Python for a str or None
Truthy(x) == x # None /\ x # ""

\* The values of request.args.get('auth_code'): a code, the empty text
\* (GET /?auth_code=) or None (no parameter).
CallbackArgs == Codes \cup {"", None}

\* The 120-second window of an attempt: from start_time (line 66) to the return.
InWindow == pc \in {"auth_loop", "auth_sleep"}

\* receive_auth_code: GET / served by the thread that holds the port; it writes the
\* global of the run that started that thread, which the current run reads only if
\* it is that run.  The receiver counts a code as received when it is truthy.
receive_auth_code(code) ==
  /\ flask_threads >= 1
  /\ receiver_code' = code
  /\ auth_code_received' = IF bound_here THEN code ELSE auth_code_received
  /\ code_in_window' = (code_in_window \/ (Truthy(code) /\ InWindow))
  /\ UNCHANGED <<pure_vars, flask_threads, sessions_opened, others_unstarted, state_vars,
                 bound_here, pc, elapsed, shown, quotes_response, metrics, exchanges,
                 token_response, issued, stop_pending>>

\* start_flask_server, in a run that has just started: a thread is started unless
\* the session has the key; the first thread of the process binds port 5000 and
\* serves this run's flask_app, a later one fails to bind.
start_flask_server ==
  IF ~flask_started
  THEN /\ flask_threads' = flask_threads + 1
       /\ flask_started' = TRUE
       /\ bound_here' = (flask_threads = 0)
       /\ receiver_code' = IF flask_threads = 0 THEN None ELSE receiver_code
  ELSE /\ bound_here' = FALSE
       /\ UNCHANGED <<flask_threads, flask_started, receiver_code>>

\* -------------------------------------------------------------------- sessions

\* A further UI session of the same process (a new tab, a reload), at any time:
\* its script runs on a fresh st.session_state and shows the authentication page.
\* With follow the model goes on with the new session and the one followed so far
\* joins the others; without, the new session joins the others.
OpenSession(follow) ==
  /\ sessions_opened < MaxSessions
  /\ sessions_opened' = sessions_opened + 1
  /\ IF follow
     THEN /\ others_unstarted' = others_unstarted + (IF flask_started THEN 0 ELSE 1)
          /\ flask_started' = FALSE
          /\ authenticated' = FALSE
          /\ access_token' = None
          /\ tracking_key' = FALSE
          /\ tracking_active' = FALSE
          /\ sidebar' = DefaultSidebar
          /\ NewRun
          /\ bound_here' = FALSE
          /\ pc' = "idle"
          /\ shown' = <<>>
          /\ issued' = None
          /\ stop_pending' = FALSE
     ELSE /\ others_unstarted' = others_unstarted + 1
          /\ UNCHANGED <<state_vars, run_vars, issued, stop_pending>>
  /\ UNCHANGED <<pure_vars, receiver_code, flask_threads>>

\* "Login with Fyers" clicked for the first time in a session that is not followed:
\* its start_flask_server starts a thread, which binds port 5000 if no thread holds
\* it and then serves the flask_app of that session's run.
OtherSessionLogin ==
  /\ others_unstarted > 0
  /\ others_unstarted' = others_unstarted - 1
  /\ flask_threads' = flask_threads + 1
  /\ receiver_code' = IF flask_threads = 0 THEN None ELSE receiver_code
  /\ UNCHANGED <<pure_vars, sessions_opened, state_vars, run_vars, issued, stop_pending>>

\* --------------------------------------------------------- authentication page

\* "Login with Fyers" clicked: the script reruns, authentication_page calls
\* auto_authenticate, which calls start_flask_server; the run then waits in
\* time.sleep(1) of line 40 (when it started a thread) and goes through lines 49-61.
ClickLogin ==
  /\ pc = "idle" /\ ~authenticated
  /\ NewRun
  /\ start_flask_server
  /\ pc' = "auth_start"
  /\ shown' = <<>>
  /\ UNCHANGED <<pure_vars, sessions_opened, others_unstarted, authenticated, access_token,
                 tracking_key, tracking_active, sidebar, issued, stop_pending>>

\* The browser has been opened; timeout = 120, start_time = time.time(): the
\* window of the attempt starts and the run enters the loop.
AuthStart ==
  /\ pc = "auth_start"
  /\ pc' = "auth_loop"
  /\ elapsed' = 0
  /\ UNCHANGED <<pure_vars, global_vars, state_vars, auth_code_received, bound_here,
                 shown, quotes_response, metrics,
                 code_in_window, exchanges, token_response, issued, stop_pending>>

\* while auth_code_received is None:
AuthLoop ==
  /\ pc = "auth_loop"
  /\ pc' = IF auth_code_received # None THEN "auth_token" ELSE "auth_sleep"
  /\ UNCHANGED <<pure_vars, global_vars, state_vars, auth_code_received, bound_here,
                 elapsed, shown, quotes_response, metrics,
                 code_in_window, exchanges, token_response, issued, stop_pending>>

\* time.sleep(1); if time.time() - start_time > timeout: return None, timeout message;
\* authentication_page then shows the error.  After n sleeps the clock reads more
\* than n seconds, so the test succeeds from the TIMEOUT-th sleep on.
AuthSleep ==
  /\ pc = "auth_sleep"
  /\ IF elapsed + 1 >= TIMEOUT
     THEN /\ shown' = Append(shown, MSG_TIMEOUT)
          /\ pc' = "idle"
          /\ elapsed' = 0
     ELSE /\ pc' = "auth_loop"
          /\ elapsed' = elapsed + 1
          /\ UNCHANGED shown
  /\ UNCHANGED <<pure_vars, global_vars, state_vars, auth_code_received, bound_here,
                 quotes_response, metrics,
                 code_in_window, exchanges, token_response, issued, stop_pending>>

\* A faulty variant: a response without access_token still yields a token.
TokenResult_lenient(response) ==
  IF "access_token" \in DOMAIN response
  THEN <<response.access_token, None>>
  ELSE <<"tokA", None>>

\* The (token, error) pair auto_authenticate returns after generate_token.
TokenResult(response) ==
  IF "access_token" \in DOMAIN response
  THEN <<response.access_token, None>>
  ELSE <<None, MSG_TOKEN_FAILED>>

\* session.set_token(auth_code_received); response = session.generate_token(); the
\* return of auto_authenticate and the rest of authentication_page's click handler.
AuthExchange(response) ==
  /\ pc = "auth_token"
  /\ exchanges' = exchanges + 1
  /\ token_response' = response
  /\ elapsed' = 0
  /\ LET token == TokenResult(response)[1]
         error == TokenResult(response)[2]
     IN IF Truthy(token)
        THEN /\ access_token' = token
             /\ authenticated' = TRUE
             /\ issued' = token
             /\ shown' = Append(shown, MSG_AUTH_OK)
             /\ pc' = "rerun"
        ELSE /\ shown' = Append(shown, IF error # None THEN error ELSE MSG_AUTH_FAILED)
             /\ pc' = "idle"
             /\ UNCHANGED <<access_token, authenticated, issued>>
  /\ UNCHANGED <<pure_vars, global_vars, flask_started, tracking_key, tracking_active,
                 sidebar, auth_code_received, bound_here,
                 quotes_response, metrics, code_in_window, stop_pending>>

\* ------------------------------------------------------------------- main page

\* main_app run with the sidebar at sb, up to its while loop: the tracking branch
\* is taken when start is pressed or the key is in st.session_state; it sets
\* tracking_active, formats the symbols (the run ends there if that raises), and
\* either handles the stop button (st.rerun()) or enters the loop.
main_app(sb, start_tracking, stop) ==
  /\ sidebar' = sb
  /\ IF start_tracking \/ tracking_key
     THEN /\ tracking_key' = TRUE
          /\ IF SymbolsRaise(sb)
             THEN tracking_active' = TRUE /\ shown' = <<"IndexError">> /\ pc' = "idle"
             ELSE IF stop
             THEN tracking_active' = FALSE /\ shown' = <<>> /\ pc' = "rerun"
             ELSE tracking_active' = TRUE /\ shown' = <<>> /\ pc' = "track_fetch"
     ELSE /\ shown' = <<>> /\ pc' = "idle"
          /\ UNCHANGED <<tracking_key, tracking_active>>

\* The script runs with no button pressed.  Not authenticated: the authentication
\* page (the sidebar's widgets are not on it and lose their values).
\* Authenticated: main_app.
ScriptRun(sb) ==
  /\ NewRun
  /\ bound_here' = FALSE
  /\ IF authenticated
     THEN main_app(sb, FALSE, FALSE)
     ELSE /\ sidebar' = DefaultSidebar
          /\ shown' = <<>> /\ pc' = "idle"
          /\ UNCHANGED <<tracking_key, tracking_active>>
  /\ UNCHANGED <<pure_vars, global_vars, flask_started, authenticated, access_token,
                 issued, stop_pending>>

\* st.rerun()
Rerun ==
  /\ pc = "rerun"
  /\ ScriptRun(sidebar)

\* The user acts on the main page between two cycles or while no script runs.
AtMainPage == authenticated /\ pc \in {"idle", "track_sleep"}

\* The "Stop Tracking" button is on the page: the last run went through the
\* tracking branch down to the button.
StopButtonShown == tracking_key /\ ~SymbolsRaise(sidebar)

\* The user gives one widget of the sidebar another value: the script reruns with
\* no button pressed.
EditInput(widget, i) ==
  /\ AtMainPage
  /\ i <= Len(SidebarChoices[widget])
  /\ SidebarChoices[widget][i] # sidebar[widget]
  /\ ScriptRun([sidebar EXCEPT ![widget] = SidebarChoices[widget][i]])

\* "Start Live Tracking" clicked: main_app runs with start_tracking = True.
ClickStart ==
  /\ AtMainPage
  /\ NewRun
  /\ bound_here' = FALSE
  /\ main_app(sidebar, TRUE, FALSE)
  /\ stop_pending' = FALSE
  /\ UNCHANGED <<pure_vars, global_vars, flask_started, authenticated, access_token, issued>>

\* "Stop Tracking" clicked: main_app sets tracking_active = True, reaches the
\* button, sets it False and calls st.rerun().
ClickStop ==
  /\ AtMainPage /\ StopButtonShown
  /\ NewRun
  /\ bound_here' = FALSE
  /\ main_app(sidebar, FALSE, TRUE)
  /\ stop_pending' = (stop_pending \/ pc = "track_sleep")
  /\ UNCHANGED <<pure_vars, global_vars, flask_started, authenticated, access_token, issued>>

\* A faulty variant: logout forgets to drop the token.
ClickLogout_keeps_token ==
  /\ AtMainPage
  /\ NewRun
  /\ bound_here' = FALSE
  /\ authenticated' = FALSE
  /\ issued' = None
  /\ shown' = <<>>
  /\ pc' = "rerun"
  /\ UNCHANGED <<pure_vars, global_vars, flask_started, access_token, tracking_key,
                 tracking_active, sidebar, stop_pending>>

\* "Logout" clicked: both session fields are reset and st.rerun() is called.
ClickLogout ==
  /\ AtMainPage
  /\ NewRun
  /\ bound_here' = FALSE
  /\ authenticated' = FALSE
  /\ access_token' = None
  /\ issued' = None
  /\ shown' = <<>>
  /\ pc' = "rerun"
  /\ UNCHANGED <<pure_vars, global_vars, flask_started, tracking_key, tracking_active,
                 sidebar, stop_pending>>

\* One pass of the while loop up to its sleep: get_ltp_batch with the session's
\* token, then metrics and rendering, or the error branch and break.
Fetch(shape) ==
  /\ pc = "track_fetch" /\ tracking_active
  /\ LET symbols == Symbols(sidebar)
         response == QuotesFor(shape, symbols)
         ltp_data == get_ltp_batch(response)
     IN /\ quotes_response' = response
        /\ IF DOMAIN ltp_data # {}
           THEN /\ metrics' = calculate_iron_condor(DictGet(ltp_data, symbols[1], 0),
                                                    DictGet(ltp_data, symbols[2], 0),
                                                    DictGet(ltp_data, symbols[3], 0),
                                                    DictGet(ltp_data, symbols[4], 0),
                                                    SYMBOLS[sidebar.selected_symbol].lot_size,
                                                    sidebar.min_qty)
                /\ pc' = "track_sleep"
                /\ UNCHANGED <<shown, tracking_active>>
           ELSE /\ shown' = Append(shown, MSG_LTP_ERROR)
                /\ tracking_active' = FALSE
                /\ pc' = "idle"
                /\ UNCHANGED metrics
  /\ UNCHANGED <<pure_vars, global_vars, flask_started, authenticated, access_token,
                 tracking_key, sidebar, auth_code_received, bound_here,
                 elapsed, code_in_window, exchanges, token_response, issued, stop_pending>>

\* time.sleep(refresh_rate); st.rerun()
TrackSleep ==
  /\ pc = "track_sleep"
  /\ pc' = "rerun"
  /\ UNCHANGED <<pure_vars, global_vars, state_vars, auth_code_received, bound_here,
                 elapsed, shown, quotes_response, metrics,
                 code_in_window, exchanges, token_response, issued, stop_pending>>

Next ==
  \/ \E code \in CallbackArgs : receive_auth_code(code)
  \/ \E follow \in BOOLEAN : OpenSession(follow)
  \/ OtherSessionLogin
  \/ ClickLogin
  \/ AuthStart
  \/ AuthLoop
  \/ AuthSleep
  \/ \E response \in TokenResponses : AuthExchange(response)
  \/ Rerun
  \/ \E widget \in Widgets, i \in ChoiceIndexes : EditInput(widget, i)
  \/ ClickStart
  \/ ClickStop
  \/ ClickLogout
  \/ \E shape \in QuoteShapes : Fetch(shape)
  \/ TrackSleep

Spec == Init /\ [][Next]_vars

\* ------------------------------------------------- format_symbol, called alone

ExpiryChars == {"1", "n", "O"}
ExpiryInputs ==
  UNION {[1..n -> ExpiryChars] : n \in 0..MaxExpiryLen} \cup {DefaultExpiry}
StrikeInputs == {0, 25700}
FormatInputs ==
  [base : {NSE_NIFTY, NSE_BANKNIFTY, NSE_FINNIFTY}, expiry : ExpiryInputs, strike : StrikeInputs,
   option_type : {CE, PE}]

InitFormat ==
  /\ InitApp
  /\ fmt_in \in FormatInputs /\ fmt_out = NotCalled
  /\ calc_in = NoArgs /\ calc_out = NoMetrics

CallFormat ==
  /\ fmt_out = NotCalled
  /\ fmt_out' = format_symbol(fmt_in.base, fmt_in.expiry, fmt_in.strike, fmt_in.option_type)
  /\ UNCHANGED <<app_vars, fmt_in, calc_vars>>

NextFormat == CallFormat

SpecFormat == InitFormat /\ [][NextFormat]_vars

\* ----------------------------------------- calculate_iron_condor, called alone

CalcInputs ==
  [call_sell_ltp : 0..MaxLtp, call_buy_ltp : 0..MaxLtp,
   put_sell_ltp : 0..MaxLtp, put_buy_ltp : 0..MaxLtp,
   lot_size : LotSizes, min_qty : 1..MaxMinQty]

InitCalc ==
  /\ InitApp
  /\ fmt_in = NoArgs /\ fmt_out = NotCalled
  /\ calc_in \in CalcInputs /\ calc_out = NoMetrics

CallCalc ==
  /\ calc_out = NoMetrics
  /\ calc_out' = calculate_iron_condor(calc_in.call_sell_ltp, calc_in.call_buy_ltp,
                                       calc_in.put_sell_ltp, calc_in.put_buy_ltp,
                                       calc_in.lot_size, calc_in.min_qty)
  /\ UNCHANGED <<app_vars, fmt_vars, calc_in>>

NextCalc == CallCalc

SpecCalc == InitCalc /\ [][NextCalc]_vars

\* ---------------------------------------------------------------------- claims

\* C1: once the user has commanded stop while tracking, no quote fetch runs until
\* a new start command: while stop is pending, the current run has fetched nothing.
C1_StopHaltsFetching == stop_pending => quotes_response = NoResponse

\* C2: whenever the fetch of a cycle yields an empty mapping (status not "ok", or
\* "ok" with no quotes), that run shows the error, sets tracking_active to false,
\* leaves the loop (the script ends, Idle) and computes no metrics.
C2_EmptyQuotesStopTracking ==
  (quotes_response # NoResponse /\ (quotes_response.s # "ok" \/ quotes_response.d = <<>>))
    => /\ shown = <<MSG_LTP_ERROR>>
       /\ ~tracking_active
       /\ pc = "idle"
       /\ metrics = NoMetrics

C2_Witness ==
  /\ quotes_response = [s |-> "ok", d |-> <<>>]
  /\ shown = <<MSG_LTP_ERROR>> /\ pc = "idle" /\ ~tracking_active

\* C3: a login attempt in whose 120-second window the callback receiver received
\* no code makes no exchange call and yields no token: it never reaches the token
\* exchange, shows neither the success nor the exchange-failure message, and when it
\* has ended it has shown the timeout message alone.
C3_NoCodeNoExchange ==
  ~code_in_window =>
    /\ pc # "auth_token"
    /\ exchanges = 0
    /\ token_response = NoTokenResponse
    /\ (~authenticated => shown \in {<<>>, <<MSG_TIMEOUT>>})

\* C4: for all leg prices (sell below buy included), lot sizes and quantities, each
\* side has premiumDiff = sell - buy, maxProfit = premiumDiff * lot_size * min_qty,
\* stopLoss = 3 * maxProfit, target = 1.5 * maxProfit; total_max_profit is the sum of
\* the two maxProfit and avg_premium the mean of the two premiumDiff; nothing is
\* clamped.  (Fields are in the fixed-point unit: 2 * target = 3 * maxProfit.)
C4_IronCondorFormulas ==
  calc_out # NoMetrics =>
    LET a == calc_in
        m == calc_out
    IN /\ m.call_premium_diff = Fixed(a.call_sell_ltp - a.call_buy_ltp)
       /\ m.call_max_profit = Fixed((a.call_sell_ltp - a.call_buy_ltp) * a.lot_size * a.min_qty)
       /\ m.call_sl = 3 * m.call_max_profit
       /\ 2 * m.call_target = 3 * m.call_max_profit
       /\ m.put_premium_diff = Fixed(a.put_sell_ltp - a.put_buy_ltp)
       /\ m.put_max_profit = Fixed((a.put_sell_ltp - a.put_buy_ltp) * a.lot_size * a.min_qty)
       /\ m.put_sl = 3 * m.put_max_profit
       /\ 2 * m.put_target = 3 * m.put_max_profit
       /\ m.total_max_profit = m.call_max_profit + m.put_max_profit
       /\ 2 * m.avg_premium = m.call_premium_diff + m.put_premium_diff

C4_Witness ==
  /\ calc_out # NoMetrics
  /\ calc_in.call_sell_ltp < calc_in.call_buy_ltp
  /\ calc_in.put_sell_ltp > calc_in.put_buy_ltp
  /\ calc_out.call_max_profit < 0 /\ calc_out.call_sl < 0 /\ calc_out.call_target < 0

\* C5: for a 7-character expiry DDMMMYY, format_symbol returns base + YY + first
\* letter of the upper-cased month + DD + strike + option type; and
\* format_symbol("NSE:NIFTY", "11NOV25", 25700, "CE") = "NSE:NIFTY25N1125700CE".
C5_FormatSymbol ==
  /\ (fmt_out # NotCalled /\ Len(fmt_in.expiry) = 7) =>
       LET e == fmt_in.expiry
       IN fmt_out = Returned(fmt_in.base \o <<e[6], e[7]>> \o <<UpperChar(e[3])>>
                             \o <<e[1], e[2]>> \o IntStr(fmt_in.strike) \o fmt_in.option_type)
  /\ (fmt_out # NotCalled
      /\ fmt_in = [base |-> NSE_NIFTY, expiry |-> DefaultExpiry, strike |-> 25700,
                   option_type |-> CE]) =>
       fmt_out = Returned(<<"N","S","E",":","N","I","F","T","Y","2","5","N","1","1",
                            "2","5","7","0","0","C","E">>)

C5_Witness ==
  /\ fmt_out # NotCalled
  /\ fmt_in.expiry = <<"1","1","n","O","n","1","O">>
  /\ fmt_out.value[Len(fmt_in.base) + 3] = "N"

\* C6: format_symbol returns a symbol for every expiry text, of any length (the
\* empty text and texts shorter than 3 characters included): it never raises.
C6_FormatNeverRaises == fmt_out # NotCalled => fmt_out.raised = None

\* C7: when the exchange response has no access_token, the attempt has made exactly
\* one exchange call, the page shows the one failure message, the session stays
\* unauthenticated with no token, and the script has ended (no further exchange
\* without a new click).
C7_ExchangeFailureIsTerminal ==
  (token_response # NoTokenResponse /\ "access_token" \notin DOMAIN token_response)
    => /\ exchanges = 1
       /\ shown = <<MSG_TOKEN_FAILED>>
       /\ ~authenticated /\ access_token = None
       /\ pc = "idle"

C7_Witness ==
  /\ token_response = [s |-> "error"]
  /\ exchanges = 1 /\ shown = <<MSG_TOKEN_FAILED>> /\ pc = "idle"

\* C8: over any sequence of login attempts from the UI sessions of one process,
\* start_flask_server starts at most one listener thread.
C8_OneListenerThread == flask_threads <= 1

\* C9: once auth_code_received holds a code, nothing changes or clears it while
\* the waiting flow of that run is between its loop and the exchange.
C9_CodeWriteOnce ==
  [][(Truthy(auth_code_received) /\ pc \in {"auth_loop", "auth_sleep", "auth_token"})
       => auth_code_received' = auth_code_received]_vars

\* C10: the session is authenticated exactly when it holds a token; a quote fetch
\* is made only while authenticated, with the token of the session's last
\* successful exchange since any logout.
C10_TokenIffAuthenticated ==
  /\ authenticated <=> access_token # None
  /\ (pc = "track_fetch" \/ quotes_response # NoResponse) =>
        /\ authenticated
        /\ access_token \in Tokens
        /\ access_token = issued

C10_Witness ==
  /\ quotes_response # NoResponse /\ authenticated /\ access_token = "tokB"
  /\ issued = "tokB" /\ pc = "track_sleep"

=============================================================================
